---- MODULE Spec2Model ----
(***************************************************************************)
(* A model of coursebuilder/modules/skill_map/competency.py: the composite *)
(* key of a competency measure document, the measure objects (load,        *)
(* update, save, get_skill_score), the Registry and its Updater, and the   *)
(* event listener that feeds scores to the measures.                       *)
(*                                                                         *)
(* Conventions.                                                            *)
(*  - A Python string is a sequence of atoms; an atom is either the        *)
(*    separator ":" or a piece of text that holds no separator.            *)
(*  - A score in 0.0 .. 1.0 is kept in tenths: 0.2 is 2, 0.5 is 5.         *)
(*  - A float quotient a / b is the pair <<a, b>>; two quotients are       *)
(*    equal when they cross-multiply to the same number.                   *)
(*  - A Python dict is a function whose DOMAIN is the set of its keys.     *)
(*  - A value that may be None is a sequence of length 0 (None) or 1.      *)
(*  - A call returns a record whose field raised names the exception it    *)
(*    ended with, NoError when it returned normally.                       *)
(***************************************************************************)
EXTENDS Integers, Sequences, FiniteSets, TLC

VARIABLES
    store,      \* the documents of CompetencyMeasureDao, by key name
    registry,   \* Registry._registry: the registered classes, in order
    inst,       \* the measure object a caller of the module holds, or None
    pc,         \* where record_event_listener stands: idle, loop, update,
                \* returned or raised
    user,       \* user.user_id() of the event being processed
    scores_by_skill, \* the listener's scores_by_skill
    pending,    \* the skills of scores_by_skill not yet iterated
    skill,      \* the listener's skill_id
    todo,       \* the scores of skill_id not yet passed to the updater
    updater,    \* the listener's updater: its _competency_measures
    ret,        \* the last call of the caller at work and how it ended
    nwork,      \* the cycles begun plus the scores passed so far
    \* History, read by the properties only.
    trace,      \* the calls on documents made for the event, in order
    store0,     \* the store as the event found it
    loaded,     \* per object of the cycle under way: what its load found
    passed,     \* the scores passed to update in the cycle under way, in order
    prev,       \* the last cycle the caller at work saved, or None
    \* SpecKey, the composite key on its own.
    kin,        \* the (user_id, skill_id, class_name) under test
    kout,       \* the result of create_key_name, once called
    kparts,     \* the result of decomposing the key, once called
    ksafe,      \* the result of safe_key on the key, once called
    \* SpecEvent, the listener with the event it was given kept.
    ev,         \* the event being processed and the order its dict iterates in
    parsed,     \* what the first part of the listener made of the event
    \* SpecRace, two deliveries of events at once.
    race,       \* the locals of each of the two runs of the listener
    \* SpecUpdate, SuccessRateCompetencyMeasure.update statement by statement.
    ucall       \* the call of update under way: its argument and position

keyvars == <<kin, kout, kparts, ksafe>>

eventvars == <<ev, parsed>>

racevars == <<race>>

stepvars == <<ucall>>

sidevars == <<eventvars, racevars, stepvars>>

listenervars == <<pc, user, scores_by_skill, pending, skill, todo, updater>>

historyvars == <<trace, store0, loaded, passed, prev>>

vars == <<store, registry, inst, ret, nwork, listenervars, historyvars, keyvars, sidevars>>

-----------------------------------------------------------------------------
(* Bounds of the model.                                                    *)

\* The longest user_id, skill_id or class_name SpecKey draws, in atoms.
MaxLen == 2

\* The most question scores one event carries.
MaxItems == 2

\* The most work in one run: cycles begun (a load by a caller, a
\* get_updater by the listener) plus scores passed to update.
MaxWork == 4

-----------------------------------------------------------------------------
(* Strings and exceptions.                                                 *)

Sep == ":"

NoError == "NoError"

None == <<>>

Some(v) == <<v>>

Raise(exc) == [raised |-> exc]

Return(v) == [raised |-> NoError, value |-> v]

\* Python's `ch in str`.
Contains(str, ch) == \E i \in 1..Len(str) : str[i] = ch

\* The index of the first ch in str, 0 when there is none.
Find(str, ch) ==
    IF Contains(str, ch)
    THEN CHOOSE i \in 1..Len(str) :
             str[i] = ch /\ \A j \in 1..(i - 1) : str[j] # ch
    ELSE 0

RECURSIVE Split(_, _, _)
\* Python's str.split(sep, maxsplit): at most maxsplit cuts, leftmost first.
Split(str, sep, maxsplit) ==
    IF maxsplit = 0 \/ ~Contains(str, sep)
    THEN <<str>>
    ELSE LET i == Find(str, sep)
         IN  <<SubSeq(str, 1, i - 1)>>
                 \o Split(SubSeq(str, i + 1, Len(str)), sep, maxsplit - 1)

-----------------------------------------------------------------------------
(* CompetencyMeasureEntity: the composite key.                             *)

\* '%s%s%s' % (user_id, skill_id, class_name)
Format3(user_id, skill_id, class_name) == user_id \o skill_id \o class_name

\* The key formatted with the second separator left out.
FormatKey_one_separator(user_id, skill_id, class_name) ==
    user_id \o <<Sep>> \o skill_id \o class_name

\* '%s:%s:%s' % (user_id, skill_id, class_name)
FormatKey(user_id, skill_id, class_name) ==
    user_id \o <<Sep>> \o skill_id \o <<Sep>> \o class_name

\* create_key_name without its assertion.
create_key_name_unchecked(user_id, skill_id, class_name) ==
    Return(FormatKey(user_id, skill_id, class_name))

create_key_name(user_id, skill_id, class_name) ==
    IF Contains(Format3(user_id, skill_id, class_name), Sep)
    THEN Raise("AssertionError")
    ELSE Return(FormatKey(user_id, skill_id, class_name))

\* db_key.name().split(':', 2), unpacked into three names.
key_parts(name) ==
    LET parts == Split(name, Sep, 2)
    IN  IF Len(parts) = 3 THEN Return(parts) ELSE Raise("ValueError")

\* The transform functions safe_key is given: the identity, and one that
\* maps every user id to the same id.
Transforms == {"identity", "anonymous"}

Transform(transform_fn, user_id) ==
    IF transform_fn = "identity" THEN user_id ELSE <<"x">>

\* safe_key yields the key name it builds the db.Key from.
safe_key(name, transform_fn) ==
    LET parts == key_parts(name)
    IN  IF parts.raised # NoError THEN parts
        ELSE create_key_name(Transform(transform_fn, parts.value[1]),
                             parts.value[2], parts.value[3])

-----------------------------------------------------------------------------
(* CompetencyMeasureDto: the document, a dict with the keys 'data' and     *)
(* 'events', either of which may be missing.                               *)

EmptyDict == [k \in {} |-> None]

Dto(dto_id, dto_dict) == [id |-> dto_id, dict |-> dto_dict]

\* dict.get(key, default)
DictGet(dict, key, default) == IF key \in DOMAIN dict THEN dict[key] ELSE default

\* dict[key] = value
DictSet(dict, key, value) ==
    [k \in DOMAIN dict \cup {key} |-> IF k = key THEN value ELSE dict[k]]

\* Python's `x or default` on a number that may be None.
Or(x, default) == IF x = None \/ x[1] = 0 THEN default ELSE x[1]

\* self.dict.get('data', {}).get(property_name): None when there is none.
get_data(dict, property_name) ==
    LET data == DictGet(dict, "data", EmptyDict)
    IN  IF property_name \in DOMAIN data THEN Some(data[property_name]) ELSE None

\* set_data that puts a new 'data' dict with the one property in place of
\* the dict there was.
set_data_replacing(dict, property_name, property_value) ==
    DictSet(dict, "data", DictSet(EmptyDict, property_name, property_value))

\* self.dict.setdefault('data', {})[property_name] = property_value
set_data(dict, property_name, property_value) ==
    DictSet(dict, "data",
            DictSet(DictGet(dict, "data", EmptyDict), property_name, property_value))

\* append_event that leaves out an event equal to one already in the list.
append_event_once(dict, event) ==
    LET events == DictGet(dict, "events", <<>>)
    IN  IF \E i \in 1..Len(events) : events[i] = event
        THEN DictSet(dict, "events", events)
        ELSE DictSet(dict, "events", Append(events, event))

\* self.dict.setdefault('events', []).append(event)
append_event(dict, event) ==
    DictSet(dict, "events", Append(DictGet(dict, "events", <<>>), event))

\* self.dict.get('events', [])
dict_get_events_list(dict) == DictGet(dict, "events", <<>>)

-----------------------------------------------------------------------------
(* CompetencyMeasureDao: the store of documents by key name. BaseJsonDao   *)
(* is not part of the module; it is modelled as get and put of a private   *)
(* copy of the document.                                                   *)

Dao_load(st, resource_key) ==
    IF resource_key \in DOMAIN st
    THEN Some(Dto(resource_key, st[resource_key]))
    ELSE None

Dao_save(st, dto) == DictSet(st, dto.id, dto.dict)

\* One call on the document of a key, as it is left in the trace of calls:
\* get and put are round trips to the store, update changes the loaded copy.
Io(op, key) == [op |-> op, key |-> key]

-----------------------------------------------------------------------------
(* BaseCompetencyMeasure and SuccessRateCompetencyMeasure. A measure       *)
(* object is [cls, user_id, dto]; a method returns the object as the call  *)
(* leaves it (self), the store as it leaves it (st) and the calls on       *)
(* documents it made (io).                                                 *)

BaseCls == "BaseCompetencyMeasure"

SuccessRateCls == "SuccessRateCompetencyMeasure"

Classes == {BaseCls, SuccessRateCls}

\* The name of the base class, whatever the class of the object.
ClassName_of_base(cls) == <<BaseCls>>

\* self.__class__.__name__
ClassName(cls) == <<cls>>

\* Scores are kept in tenths: the cutoff 0.5 is 5.
CORRECT_INCORRECT_CUTOFF == 5

CORRECT_KEY == "correct"

COUNT_KEY == "count"

\* BaseCompetencyMeasure.__init__
Measure(cls, user_id) == [cls |-> cls, user_id |-> user_id, dto |-> None]

Failed(exc, self, st, io) == [raised |-> exc, self |-> self, st |-> st, io |-> io]

Done(self, st, io) == [raised |-> NoError, self |-> self, st |-> st, io |-> io]

\* load that starts from an empty document whatever the store holds.
load_ignoring_store(self, skill_id, st) ==
    LET resource_key == create_key_name(self.user_id, skill_id, ClassName(self.cls))
    IN  IF resource_key.raised # NoError
        THEN Failed(resource_key.raised, self, st, <<>>)
        ELSE Done([self EXCEPT !.dto = Some(Dto(resource_key.value, EmptyDict))], st,
                  <<Io("get", resource_key.value)>>)

\* load with the key built for one fixed user, not for self.user_id.
load_for_fixed_user(self, skill_id, st) ==
    LET resource_key == create_key_name(<<"u">>, skill_id, ClassName(self.cls))
    IN  IF resource_key.raised # NoError
        THEN Failed(resource_key.raised, self, st, <<>>)
        ELSE LET found == Dao_load(st, resource_key.value)
                 dto == IF found = None
                        THEN Some(Dto(resource_key.value, EmptyDict))
                        ELSE found
             IN  Done([self EXCEPT !.dto = dto], st, <<Io("get", resource_key.value)>>)

load(self, skill_id, st) ==
    LET resource_key == create_key_name(self.user_id, skill_id, ClassName(self.cls))
    IN  IF resource_key.raised # NoError
        THEN Failed(resource_key.raised, self, st, <<>>)
        ELSE LET found == Dao_load(st, resource_key.value)
                 dto == IF found = None
                        THEN Some(Dto(resource_key.value, EmptyDict))
                        ELSE found
             IN  Done([self EXCEPT !.dto = dto], st, <<Io("get", resource_key.value)>>)

\* save that leaves the document on the object.
save_keeps_dto(self, st) ==
    IF self.dto = None
    THEN Failed("AssertionError", self, st, <<>>)
    ELSE Done(self, Dao_save(st, self.dto[1]), <<Io("put", self.dto[1].id)>>)

save(self, st) ==
    IF self.dto = None
    THEN Failed("AssertionError", self, st, <<>>)
    ELSE Done([self EXCEPT !.dto = None], Dao_save(st, self.dto[1]),
              <<Io("put", self.dto[1].id)>>)

EventRecord(normalized_score, unit_id, lesson_id, block_id, timestamp) ==
    [normalized_score |-> normalized_score, unit_id |-> unit_id,
     lesson_id |-> lesson_id, block_id |-> block_id, timestamp |-> timestamp]

Base_update(self, normalized_score, unit_id, lesson_id, block_id, timestamp, st) ==
    IF self.dto = None
    THEN Failed("AssertionError", self, st, <<>>)
    ELSE Done([self EXCEPT !.dto[1].dict =
                   append_event(@, EventRecord(normalized_score, unit_id,
                                               lesson_id, block_id, timestamp))],
              st, <<Io("update", self.dto[1].id)>>)

\* SuccessRate_update with a score that equals the cutoff counted as
\* incorrect.
SuccessRate_update_strict(self, normalized_score, st) ==
    LET super == Base_update(self, normalized_score, None, None, None, None, st)
    IN  IF super.raised # NoError
        THEN super
        ELSE LET d0 == super.self.dto[1].dict
                 count == Or(get_data(d0, COUNT_KEY), 0)
                 d1 == set_data(d0, COUNT_KEY, count + 1)
                 d2 == IF normalized_score > CORRECT_INCORRECT_CUTOFF
                       THEN LET correct == Or(get_data(d1, CORRECT_KEY), 0)
                            IN  set_data(d1, CORRECT_KEY, correct + 1)
                       ELSE d1
             IN  Done([super.self EXCEPT !.dto[1].dict = d2], st, super.io)

SuccessRate_update(self, normalized_score, st) ==
    LET super == Base_update(self, normalized_score, None, None, None, None, st)
    IN  IF super.raised # NoError
        THEN super
        ELSE LET d0 == super.self.dto[1].dict
                 count == Or(get_data(d0, COUNT_KEY), 0)
                 d1 == set_data(d0, COUNT_KEY, count + 1)
                 d2 == IF normalized_score >= CORRECT_INCORRECT_CUTOFF
                       THEN LET correct == Or(get_data(d1, CORRECT_KEY), 0)
                            IN  set_data(d1, CORRECT_KEY, correct + 1)
                       ELSE d1
             IN  Done([super.self EXCEPT !.dto[1].dict = d2], st, super.io)

\* The statements of the method with the counters first and the chained
\* call last.
SuccessRate_update_body_counters_first == <<"count", "correct", "super">>

\* The statements of SuccessRateCompetencyMeasure.update, in the order the
\* method runs them: the chained call of the base update, the increment of
\* count, the conditional increment of correct.
SuccessRate_update_body == <<"super", "count", "correct">>

\* One statement of SuccessRateCompetencyMeasure.update run on the object.
\* self.dto.get_data on an object without a document raises AttributeError.
SuccessRate_update_statement(statement, self, normalized_score, st) ==
    IF statement = "super"
    THEN Base_update(self, normalized_score, None, None, None, None, st)
    ELSE IF statement = "count"
    THEN IF self.dto = None
         THEN Failed("AttributeError", self, st, <<>>)
         ELSE LET count == Or(get_data(self.dto[1].dict, COUNT_KEY), 0)
              IN  Done([self EXCEPT !.dto[1].dict = set_data(@, COUNT_KEY, count + 1)],
                       st, <<>>)
    ELSE IF normalized_score < CORRECT_INCORRECT_CUTOFF
    THEN Done(self, st, <<>>)
    ELSE IF self.dto = None
    THEN Failed("AttributeError", self, st, <<>>)
    ELSE LET correct == Or(get_data(self.dto[1].dict, CORRECT_KEY), 0)
         IN  Done([self EXCEPT !.dto[1].dict = set_data(@, CORRECT_KEY, correct + 1)],
                  st, <<>>)

\* update that saves the document and loads it again, score by score.
update_saved_each_time(self, normalized_score, st) ==
    LET updated == IF self.cls = SuccessRateCls
                   THEN SuccessRate_update(self, normalized_score, st)
                   ELSE Base_update(self, normalized_score, None, None, None, None, st)
    IN  IF updated.raised # NoError
        THEN updated
        ELSE LET saved == save(updated.self, updated.st)
                 again == Dao_load(saved.st, self.dto[1].id)
             IN  Done([saved.self EXCEPT !.dto = again], saved.st,
                      updated.io \o saved.io \o <<Io("get", self.dto[1].id)>>)

\* measure.update(normalized_score), by the class of the object.
update(self, normalized_score, st) ==
    IF self.cls = SuccessRateCls
    THEN SuccessRate_update(self, normalized_score, st)
    ELSE Base_update(self, normalized_score, None, None, None, None, st)

\* float(a) / b
Div(a, b) == IF b = 0 THEN Raise("ZeroDivisionError") ELSE Return(<<a, b>>)

\* A score worked out from the event log: the mean of the scores logged.
SuccessRate_get_skill_score_mean_of_events(self) ==
    IF self.dto = None
    THEN Raise("AttributeError")
    ELSE LET events == dict_get_events_list(self.dto[1].dict)
             total[i \in 0..Len(events)] ==
                 IF i = 0 THEN 0 ELSE total[i - 1] + events[i].normalized_score
         IN  IF events # <<>> THEN Div(total[Len(events)], 10 * Len(events))
             ELSE Return(<<0, 1>>)

\* SuccessRate_get_skill_score without the test of the count.
SuccessRate_get_skill_score_unguarded(self) ==
    IF self.dto = None
    THEN Raise("AttributeError")
    ELSE LET correct == Or(get_data(self.dto[1].dict, CORRECT_KEY), 0)
             count == Or(get_data(self.dto[1].dict, COUNT_KEY), 0)
         IN  Div(correct, count)

SuccessRate_get_skill_score(self) ==
    IF self.dto = None
    THEN Raise("AttributeError")
    ELSE LET correct == Or(get_data(self.dto[1].dict, CORRECT_KEY), 0)
             count == Or(get_data(self.dto[1].dict, COUNT_KEY), 0)
         IN  IF count # 0 THEN Div(correct, count) ELSE Return(<<0, 1>>)

get_skill_score(self) ==
    IF self.cls = SuccessRateCls
    THEN SuccessRate_get_skill_score(self)
    ELSE Raise("NotImplementedError")

get_events_list(self) ==
    IF self.dto = None
    THEN Raise("AssertionError")
    ELSE Return(dict_get_events_list(self.dto[1].dict))

\* The dict after dict.get(key, default): get inserts nothing, where
\* setdefault would add the key.
dict_after_get(dict, key, default) == dict

\* The document's dict after get_data(property_name).
get_data_effect(dict, property_name) == dict_after_get(dict, "data", EmptyDict)

\* The document's dict after get_events_list().
get_events_list_effect(dict) == dict_after_get(dict, "events", <<>>)

\* The measure object after get_skill_score(): the base class raises at
\* once, SuccessRateCompetencyMeasure reads correct, then count.
get_skill_score_effect(self) ==
    IF self.cls # SuccessRateCls \/ self.dto = None
    THEN self
    ELSE [self EXCEPT !.dto[1].dict =
             get_data_effect(get_data_effect(@, CORRECT_KEY), COUNT_KEY)]

\* The measure object after get_events_list().
measure_get_events_list_effect(self) ==
    IF self.dto = None
    THEN self
    ELSE [self EXCEPT !.dto[1].dict = get_events_list_effect(@)]

\* Two quotients are the same number.
SameScore(a, b) == a[1] * b[2] = b[1] * a[2]

-----------------------------------------------------------------------------
(* Registry and Registry._Updater. An Updater is its list of loaded        *)
(* measure objects, _competency_measures.                                  *)

\* Registry.register: every class of the model is a BaseCompetencyMeasure.
register(reg, competency_measure_class) ==
    IF competency_measure_class \in Classes
    THEN Return(Append(reg, competency_measure_class))
    ELSE Raise("AssertionError")

Built(exc, measures, st, io) ==
    [raised |-> exc, measures |-> measures, st |-> st, io |-> io]

RECURSIVE get_updater_from(_, _, _, _, _, _, _)
\* The loop of get_updater from the i-th registered class on.
get_updater_from(reg, i, user_id, skill_id, st, competency_measures, io) ==
    IF i > Len(reg)
    THEN Built(NoError, competency_measures, st, io)
    ELSE LET measure == load(Measure(reg[i], user_id), skill_id, st)
         IN  IF measure.raised # NoError
             THEN Built(measure.raised, competency_measures, st, io \o measure.io)
             ELSE get_updater_from(reg, i + 1, user_id, skill_id, st,
                                   Append(competency_measures, measure.self),
                                   io \o measure.io)

\* get_updater that falls back on a SuccessRateCompetencyMeasure when no
\* class is registered.
get_updater_with_default(reg, user_id, skill_id, st) ==
    get_updater_from(IF reg = <<>> THEN <<SuccessRateCls>> ELSE reg, 1, user_id,
                     skill_id, st, <<>>, <<>>)

get_updater(reg, user_id, skill_id, st) ==
    get_updater_from(reg, 1, user_id, skill_id, st, <<>>, <<>>)

RECURSIVE Updater_update_from(_, _, _, _, _)
\* The loop of _Updater.update from the i-th bundled measure on.
Updater_update_from(measures, i, normalized_score, st, io) ==
    IF i > Len(measures)
    THEN Built(NoError, measures, st, io)
    ELSE LET updated == update(measures[i], normalized_score, st)
         IN  IF updated.raised # NoError
             THEN Built(updated.raised, measures, st, io \o updated.io)
             ELSE Updater_update_from([measures EXCEPT ![i] = updated.self], i + 1,
                                      normalized_score, updated.st, io \o updated.io)

\* _Updater.update that stops after the first bundled measure.
Updater_update_first_only(measures, normalized_score, st) ==
    IF measures = <<>>
    THEN Built(NoError, measures, st, <<>>)
    ELSE LET updated == update(measures[1], normalized_score, st)
         IN  IF updated.raised # NoError
             THEN Built(updated.raised, measures, st, updated.io)
             ELSE Built(NoError, [measures EXCEPT ![1] = updated.self], updated.st,
                        updated.io)

Updater_update(measures, normalized_score, st) ==
    Updater_update_from(measures, 1, normalized_score, st, <<>>)

RECURSIVE Updater_save_from(_, _, _, _)
\* The loop of _Updater.save from the i-th bundled measure on.
Updater_save_from(measures, i, st, io) ==
    IF i > Len(measures)
    THEN Built(NoError, measures, st, io)
    ELSE LET saved == save(measures[i], st)
         IN  IF saved.raised # NoError
             THEN Built(saved.raised, measures, st, io \o saved.io)
             ELSE Updater_save_from([measures EXCEPT ![i] = saved.self], i + 1,
                                    saved.st, io \o saved.io)

Updater_save(measures, st) == Updater_save_from(measures, 1, st, <<>>)

-----------------------------------------------------------------------------
(* The payload of an event. A decoded JSON value is a record with one      *)
(* field, named for its type: a dict is a function from its keys, a list   *)
(* is a sequence.                                                          *)

JDict(d) == [dict |-> d]

JList(l) == [list |-> l]

JStr(s) == [str |-> s]

JNum(n) == [num |-> n]

\* isinstance(x, type)
IsA(x, type) == type \in DOMAIN x

\* The Python value a string or a number stands for.
Val(x) == IF IsA(x, "str") THEN x.str ELSE x.num

\* transforms.loads is not part of the module: the data either decodes to
\* the JSON value it carries or the decoder raises.
loads(data) == IF data.wellformed THEN Return(data.json) ELSE Raise("ValueError")

\* data[key] of a decoded value.
Item(data, key) ==
    IF ~IsA(data, "dict") THEN Raise("TypeError")
    ELSE IF key \notin DOMAIN data.dict THEN Raise("KeyError")
    ELSE Return(data.dict[key])

QuestionScore(quid, score) == [quid |-> quid, score |-> score]

Min(a, b) == IF a <= b THEN a ELSE b

\* The pairing that stops after the first pair.
Zip_first_pair(quids, scores) ==
    [i \in 1..Min(1, Min(Len(quids), Len(scores))) |->
        QuestionScore(Val(quids[i]), Val(scores[i]))]

\* [QuestionScore(q, s) for q, s in zip(quids, scores)]
Zip(quids, scores) ==
    [i \in 1..Min(Len(quids), Len(scores)) |-> QuestionScore(Val(quids[i]), Val(scores[i]))]

get_questions_scores_from_single_item(data) ==
    LET type == Item(data, "type")
    IN  IF type.raised # NoError THEN type
        ELSE IF type.value = JStr("QuestionGroup")
        THEN LET quids == Item(data, "quids")
                 scores == Item(data, "individualScores")
             IN  IF quids.raised # NoError THEN quids
                 ELSE IF scores.raised # NoError THEN scores
                 ELSE IF ~IsA(quids.value, "list") \/ ~IsA(scores.value, "list")
                 THEN Raise("TypeError")
                 ELSE Return(Zip(quids.value.list, scores.value.list))
        ELSE LET quid == Item(data, "quid")
                 score == Item(data, "score")
             IN  IF quid.raised # NoError THEN quid
                 ELSE IF score.raised # NoError THEN score
                 ELSE Return(<<QuestionScore(Val(quid.value), Val(score.value))>>)

RECURSIVE many_items_from(_, _, _, _, _)
\* The loop of _get_questions_scores_from_many_items over the instance ids,
\* in the order the dict yields them, from the i-th on.
many_items_from(quids, scores, order, i, question_scores) ==
    IF i > Len(order)
    THEN Return(question_scores)
    ELSE LET instanceid == order[i]
             quid == quids[instanceid]
         IN  IF instanceid \notin DOMAIN scores
             THEN Raise("KeyError")
             ELSE LET score == scores[instanceid]
                  IN  IF IsA(quid, "str")
                      THEN many_items_from(quids, scores, order, i + 1,
                               Append(question_scores, QuestionScore(quid.str, Val(score))))
                      ELSE IF ~IsA(quid, "list") \/ ~IsA(score, "list")
                      THEN Raise("TypeError")
                      ELSE many_items_from(quids, scores, order, i + 1,
                               question_scores \o Zip(quid.list, score.list))

\* The function without its test for a list.
get_questions_scores_from_many_items_unsniffed(data, order) ==
    LET quids == Item(data, "quids")
        scores == Item(data, "individualScores")
    IN  IF quids.raised # NoError THEN quids
        ELSE IF scores.raised # NoError THEN scores
        ELSE IF ~IsA(quids.value, "dict") \/ ~IsA(scores.value, "dict")
        THEN Raise("TypeError")
        ELSE many_items_from(quids.value.dict, scores.value.dict, order, 1, <<>>)

\* order: the instance ids of data['quids'] as iterating the dict yields them.
get_questions_scores_from_many_items(data, order) ==
    IF IsA(data, "list")
    THEN Return(<<>>)
    ELSE LET quids == Item(data, "quids")
             scores == Item(data, "individualScores")
         IN  IF quids.raised # NoError THEN quids
             ELSE IF scores.raised # NoError THEN scores
             ELSE IF ~IsA(quids.value, "dict") \/ ~IsA(scores.value, "dict")
             THEN Raise("TypeError")
             ELSE many_items_from(quids.value.dict, scores.value.dict, order, 1, <<>>)

-----------------------------------------------------------------------------
(* record_event_listener, in the steps it takes: decoding and grouping,    *)
(* then per skill get_updater, update per score, save.                     *)

Sources == {"tag-assessment", "attempt-lesson", "submit-assessment"}

\* The outcome of the first part of record_event_listener: the
\* question scores of the event, or ignored for a source it does not know.
\* loads counts the calls of transforms.loads the listener made.
Parsed(question_scores) ==
    [raised |-> NoError, ignored |-> FALSE, value |-> question_scores, loads |-> 1]

Ignored == [raised |-> NoError, ignored |-> TRUE, value |-> <<>>, loads |-> 0]

\* The listener raised after it called transforms.loads.
Broken(exc) == [raised |-> exc, ignored |-> FALSE, value |-> <<>>, loads |-> 1]

Scored(r) == IF r.raised # NoError THEN Broken(r.raised) ELSE Parsed(r.value)

\* The dispatch with every other source taken for a tag-assessment.
question_scores_of_any_source(source, data, order) ==
    IF source = "attempt-lesson"
    THEN LET decoded == loads(data)
         IN  IF decoded.raised # NoError THEN Broken(decoded.raised)
             ELSE Scored(get_questions_scores_from_many_items(decoded.value, order))
    ELSE IF source = "submit-assessment"
    THEN LET decoded == loads(data)
         IN  IF decoded.raised # NoError THEN Broken(decoded.raised)
             ELSE LET values == Item(decoded.value, "values")
                  IN  IF values.raised # NoError THEN Broken(values.raised)
                      ELSE Scored(get_questions_scores_from_many_items(values.value, order))
    ELSE LET decoded == loads(data)
         IN  IF decoded.raised # NoError THEN Broken(decoded.raised)
             ELSE Scored(get_questions_scores_from_single_item(decoded.value))

\* The dispatch with every failure to decode or to read the payload taken
\* as an event without question scores.
question_scores_of_forgiving(source, data, order) ==
    LET r == question_scores_of_any_source(source, data, order)
    IN  IF source \notin Sources THEN Ignored
        ELSE IF r.raised # NoError THEN Parsed(<<>>)
        ELSE r

question_scores_of(source, data, order) ==
    IF source = "tag-assessment"
    THEN LET decoded == loads(data)
         IN  IF decoded.raised # NoError THEN Broken(decoded.raised)
             ELSE Scored(get_questions_scores_from_single_item(decoded.value))
    ELSE IF source = "attempt-lesson"
    THEN LET decoded == loads(data)
         IN  IF decoded.raised # NoError THEN Broken(decoded.raised)
             ELSE Scored(get_questions_scores_from_many_items(decoded.value, order))
    ELSE IF source = "submit-assessment"
    THEN LET decoded == loads(data)
         IN  IF decoded.raised # NoError THEN Broken(decoded.raised)
             ELSE LET values == Item(decoded.value, "values")
                  IN  IF values.raised # NoError THEN Broken(values.raised)
                      ELSE Scored(get_questions_scores_from_many_items(values.value, order))
    ELSE Ignored

\* models.QuestionDAO.load(quid).dict.get(constants.SKILLS_KEY, []): the
\* question store is not part of the module; the questions of the model and
\* the skills each is tagged with.
QuestionSkills(quid) ==
    CASE quid = "q1" -> << <<"s">> >>
      [] quid = "q2" -> << <<"t">> >>
      [] quid = "q3" -> << <<"s">>, <<"t">> >>
      [] OTHER -> <<>>

\* The inner loop that stops after the first skill of the question.
add_skills_first_tag(by_skill, skills, j, score) ==
    IF j > Len(skills) \/ j > 1
    THEN by_skill
    ELSE DictSet(by_skill, skills[j], Append(DictGet(by_skill, skills[j], <<>>), score))

RECURSIVE add_skills(_, _, _, _)
\* The inner loop: scores_by_skill[skill_id].append(score), from the j-th skill.
add_skills(by_skill, skills, j, score) ==
    IF j > Len(skills)
    THEN by_skill
    ELSE add_skills(DictSet(by_skill, skills[j],
                            Append(DictGet(by_skill, skills[j], <<>>), score)),
                    skills, j + 1, score)

RECURSIVE group_by_skill(_, _, _)
\* The outer loop over question_scores, from the i-th on.
group_by_skill(question_scores, i, by_skill) ==
    IF i > Len(question_scores)
    THEN by_skill
    ELSE group_by_skill(question_scores, i + 1,
             add_skills(by_skill, QuestionSkills(question_scores[i].quid), 1,
                        question_scores[i].score))

-----------------------------------------------------------------------------
(* The inputs the callers of the module supply.                            *)

\* user ids and skill ids; one of each holds the separator.
UserIds == {<<"u">>, <<"v">>, <<"u", Sep, "v">>}

SkillIds == {<<"s">>, <<"t">>, <<"s", Sep>>}

\* Scores a caller passes to update, in tenths.
Scores == {2, 5, 9}

\* The user id of the callers that work between events.
CallerUserIds == {<<"u">>}

\* Scores the events carry, in tenths.
EventScores == {2, 9}

Quids == {"q1", "q2", "q3", "q4"}

InstanceIds == <<"i1", "i2", "i3", "i4">>

Data(json) == [wellformed |-> TRUE, json |-> json]

Malformed == [wellformed |-> FALSE, json |-> JList(<<>>)]

\* The lists of question scores an event may carry.
PairLists ==
    UNION {[1..n -> {QuestionScore(q, sc) : q \in Quids, sc \in EventScores}] :
           n \in 0..MaxItems}

QuidsOf(l) == [i \in 1..Len(l) |-> JStr(l[i].quid)]

ScoresOf(l) == [i \in 1..Len(l) |-> JNum(l[i].score)]

\* A single item that is one question.
SingleItem(l) ==
    JDict([type |-> JStr("SaQuestion"), quid |-> JStr(l[1].quid),
           score |-> JNum(l[1].score)])

\* A single item that is a question group.
GroupItem(l) ==
    JDict([type |-> JStr("QuestionGroup"), quids |-> JList(QuidsOf(l)),
           individualScores |-> JList(ScoresOf(l))])

\* Many items, each question under an instance id of its own.
ManyItems(l) ==
    JDict([quids |-> JDict([id \in {InstanceIds[i] : i \in 1..Len(l)} |->
                               JStr(l[CHOOSE i \in 1..Len(l) : InstanceIds[i] = id].quid)]),
           individualScores |->
                     JDict([id \in {InstanceIds[i] : i \in 1..Len(l)} |->
                               JNum(l[CHOOSE i \in 1..Len(l) : InstanceIds[i] = id].score)])])

\* Many items that are one question group under one instance id.
ManyGrouped(l) ==
    JDict([quids |-> JDict([id \in {InstanceIds[1]} |-> JList(QuidsOf(l))]),
           individualScores |-> JDict([id \in {InstanceIds[1]} |-> JList(ScoresOf(l))])])

\* A pre-1.5 assessment: a bare list.
Legacy == JList(<<>>)

\* The bare lists delivered: the empty one, and one with an answer in it.
LegacyLists == {Legacy, JList(<<JStr("q1"), JNum(9)>>)}

SinglePayloads ==
    {SingleItem(l) : l \in {x \in PairLists : Len(x) = 1}}
        \cup {GroupItem(l) : l \in PairLists}

Event(source, data) == [source |-> source, data |-> data]

\* Payloads that decode but lack what the listener reads from them: a single
\* item without 'score' or without 'type', or that is a list; many items
\* without 'individualScores', or with a score missing for an instance id;
\* a submission without 'values', or that is itself a bare list.
Misshapen ==
    {Event("tag-assessment",
           Data(JDict([type |-> JStr("SaQuestion"), quid |-> JStr("q1")]))),
     Event("tag-assessment",
           Data(JDict([quids |-> JList(<<JStr("q1")>>),
                       individualScores |-> JList(<<JNum(9)>>)]))),
     Event("tag-assessment", Data(Legacy)),
     Event("attempt-lesson",
           Data(JDict([quids |-> JDict([id \in {"i1"} |-> JStr("q1")])]))),
     Event("attempt-lesson",
           Data(JDict([quids |-> JDict([id \in {"i1"} |-> JStr("q1")]),
                       individualScores |-> JDict([id \in {} |-> JNum(9)])]))),
     Event("submit-assessment", Data(ManyGrouped(<<QuestionScore("q1", 9)>>))),
     Event("submit-assessment", Data(Legacy))}

\* Events of a source the listener does not handle, with payloads that
\* would carry a score under a source it handles, and one that is no JSON.
Unhandled ==
    {Event("enter-page", data) :
        data \in {Malformed, Data(SingleItem(<<QuestionScore("q1", 9)>>)),
                  Data(ManyItems(<<QuestionScore("q1", 9)>>))}}

\* The events delivered: a lesson's questions each under an instance id, an
\* assessment's as one group.
Events ==
    {[source |-> "tag-assessment", data |-> Data(j)] : j \in SinglePayloads}
        \cup {[source |-> "attempt-lesson", data |-> Data(j)] :
              j \in {ManyItems(l) : l \in PairLists} \cup LegacyLists}
        \cup {[source |-> "submit-assessment", data |-> Data(JDict([values |-> j]))] :
              j \in {ManyGrouped(l) : l \in PairLists} \cup LegacyLists}
        \cup {[source |-> src, data |-> Malformed] : src \in Sources}
        \cup Misshapen
        \cup Unhandled

Orderings(S) ==
    {p \in [1..Cardinality(S) -> S] : \A i, j \in 1..Cardinality(S) : p[i] = p[j] => i = j}

\* The orders in which iterating data['quids'] may yield the instance ids.
InstanceOrders(e) ==
    LET top == IF e.source = "submit-assessment" /\ e.data.wellformed
                  /\ IsA(e.data.json, "dict") /\ "values" \in DOMAIN e.data.json.dict
               THEN e.data.json.dict["values"] ELSE e.data.json
    IN  IF e.source \in {"attempt-lesson", "submit-assessment"} /\ e.data.wellformed
           /\ IsA(top, "dict") /\ "quids" \in DOMAIN top.dict
           /\ IsA(top.dict["quids"], "dict")
        THEN Orderings(DOMAIN top.dict["quids"].dict)
        ELSE {<<>>}

RECURSIVE SumLen(_, _)
\* The number of scores in scores_by_skill over the skills S.
SumLen(by_skill, S) ==
    IF S = {} THEN 0
    ELSE LET k == CHOOSE x \in S : TRUE
         IN  Len(by_skill[k]) + SumLen(by_skill, S \ {k})

-----------------------------------------------------------------------------
(* The state machine. One caller is at work at a time: either a caller     *)
(* that holds a measure object (New, then load, update and save in any     *)
(* order, then Drop), or the delivery of one event to the listener.        *)

Call(op, exc) == [op |-> op, raised |-> exc]

NoCall == Call("none", NoError)

\* What load found for a measure object: whether the document was absent,
\* and its events.
Found(st, measure) ==
    [absent |-> measure.dto[1].id \notin DOMAIN st,
     events |-> dict_get_events_list(measure.dto[1].dict)]

\* The events of the document stored under a key, none when there is none.
EventsAt(st, key) == IF key \in DOMAIN st THEN dict_get_events_list(st[key]) ELSE <<>>

KeyIdle == kin = <<>> /\ kout = None /\ kparts = None /\ ksafe = None

ListenerIdle ==
    /\ pc = "idle"
    /\ user = <<>>
    /\ scores_by_skill = EmptyDict
    /\ pending = {}
    /\ skill = <<>>
    /\ todo = <<>>
    /\ updater = <<>>
    /\ trace = <<>>
    /\ store0 = EmptyDict

SideIdle == ev = None /\ parsed = None /\ race = None /\ ucall = None

Init ==
    /\ SideIdle
    /\ store = EmptyDict
    /\ registry = <<>>
    /\ inst = None
    /\ ret = NoCall
    /\ nwork = 0
    /\ ListenerIdle
    /\ loaded = <<>>
    /\ passed = <<>>
    /\ prev = None
    /\ KeyIdle

\* Registry.register(competency_measure_class), at startup: before any
\* cycle is begun, and each class once.
Register(cls) ==
    /\ pc = "idle" /\ inst = None
    /\ store = EmptyDict /\ nwork = 0
    /\ \A i \in 1..Len(registry) : registry[i] # cls
    /\ LET r == register(registry, cls)
       IN  registry' = (IF r.raised = NoError THEN r.value ELSE registry)
    /\ UNCHANGED <<store, inst, ret, nwork, listenervars, historyvars, keyvars, sidevars>>

\* A caller makes a measure object, cls(user_id): its first, or one in
\* place of an object that holds no document.
New(cls, user_id) ==
    /\ pc = "idle"
    /\ inst # None => inst[1].dto = None
    /\ inst' = Some(Measure(cls, user_id))
    /\ ret' = Call("init", NoError)
    /\ UNCHANGED <<store, registry, nwork, listenervars, historyvars, keyvars, sidevars>>

\* inst.load(skill_id), on an object that holds no document.
Load(skill_id) ==
    /\ inst # None /\ inst[1].dto = None
    /\ nwork < MaxWork
    /\ LET r == load(inst[1], skill_id, store)
       IN  /\ inst' = Some(r.self)
           /\ ret' = Call("load", r.raised)
           /\ IF r.raised = NoError
              THEN loaded' = <<Found(store, r.self)>> /\ passed' = <<>>
                   /\ nwork' = nwork + 1
              ELSE UNCHANGED <<loaded, passed, nwork>>
    /\ UNCHANGED <<store, registry, listenervars, trace, store0, prev, keyvars, sidevars>>

\* inst.update(normalized_score)
Update(normalized_score) ==
    /\ inst # None
    /\ inst[1].dto # None => nwork < MaxWork
    /\ LET r == update(inst[1], normalized_score, store)
       IN  /\ inst' = Some(r.self)
           /\ ret' = Call("update", r.raised)
           /\ IF r.raised = NoError
              THEN passed' = Append(passed, normalized_score) /\ nwork' = nwork + 1
              ELSE UNCHANGED <<passed, nwork>>
    /\ UNCHANGED <<store, registry, listenervars, trace, store0, loaded, prev, keyvars, sidevars>>

\* inst.save()
Save ==
    /\ inst # None
    /\ LET r == save(inst[1], store)
       IN  /\ inst' = Some(r.self)
           /\ store' = r.st
           /\ ret' = Call("save", r.raised)
           /\ IF r.raised = NoError
              THEN /\ prev' = Some([key |-> inst[1].dto[1].id, cls |-> inst[1].cls,
                                    absent |-> loaded[1].absent, passed |-> passed])
                   /\ loaded' = <<>>
                   /\ passed' = <<>>
              ELSE UNCHANGED <<prev, loaded, passed>>
    /\ UNCHANGED <<registry, nwork, listenervars, trace, store0, keyvars, sidevars>>

\* The caller lets go of its measure object.
Drop ==
    /\ inst # None
    /\ inst' = None
    /\ ret' = NoCall
    /\ loaded' = <<>>
    /\ passed' = <<>>
    /\ prev' = None
    /\ UNCHANGED <<store, registry, nwork, listenervars, trace, store0, keyvars, sidevars>>

\* The first part of record_event_listener(source, user, data): decoding,
\* the question scores, the grouping by skill. What it leaves for the rest
\* of the listener is the exception raised, if any, and scores_by_skill.
Ingest(e, order) ==
    LET r == question_scores_of(e.source, e.data, order)
    IN  [raised |-> r.raised,
         ignored |-> r.raised = NoError /\ r.ignored,
         by_skill |-> IF r.raised # NoError \/ r.ignored THEN EmptyDict
                      ELSE group_by_skill(r.value, 1, EmptyDict)]

\* What the first part of the listener makes of the events delivered, each
\* event taken with every order its dict may iterate in.
Deliveries == UNION {{Ingest(e, order) : order \in InstanceOrders(e)} : e \in Events}

\* record_event_listener(source, user, data), up to its loop over the skills.
BeginWith(d, user_id) ==
    /\ pc = "idle" /\ inst = None
    /\ nwork + Cardinality(DOMAIN d.by_skill) + SumLen(d.by_skill, DOMAIN d.by_skill)
           <= MaxWork
    /\ pc' = (IF d.raised # NoError THEN "raised"
              ELSE IF d.by_skill = EmptyDict THEN "returned" ELSE "loop")
    /\ ret' = Call("record_event_listener", d.raised)
    /\ scores_by_skill' = d.by_skill
    /\ pending' = DOMAIN d.by_skill
    /\ user' = user_id
    /\ store0' = store
    /\ UNCHANGED <<store, registry, inst, nwork, skill, todo, updater, trace, loaded,
                   passed, prev, keyvars, racevars, stepvars>>

\* The same, for an event of which only the outcome of the decoding is kept.
Begin(d, user_id) == BeginWith(d, user_id) /\ UNCHANGED eventvars

\* The loop takes the next skill, in whatever order the dict yields them:
\* updater = Registry.get_updater(user.user_id(), skill_id)
GetUpdater(skill_id) ==
    /\ pc = "loop"
    /\ skill_id \in pending
    /\ LET r == get_updater(registry, user, skill_id, store)
       IN  /\ trace' = trace \o r.io
           /\ IF r.raised # NoError
              THEN /\ pc' = "raised"
                   /\ ret' = Call("record_event_listener", r.raised)
                   /\ UNCHANGED <<pending, skill, todo, updater, loaded, passed>>
              ELSE /\ pc' = "update"
                   /\ UNCHANGED ret
                   /\ pending' = pending \ {skill_id}
                   /\ skill' = skill_id
                   /\ todo' = scores_by_skill[skill_id]
                   /\ updater' = r.measures
                   /\ loaded' = [i \in 1..Len(r.measures) |-> Found(store, r.measures[i])]
                   /\ passed' = <<>>
    /\ nwork' = nwork + 1
    /\ UNCHANGED <<store, registry, inst, user, scores_by_skill, store0, prev, keyvars, sidevars>>

\* updater.update(score), for the next score of the skill.
UpdaterUpdate ==
    /\ pc = "update"
    /\ todo # <<>>
    /\ LET r == Updater_update(updater, Head(todo), store)
       IN  /\ trace' = trace \o r.io
           /\ updater' = r.measures
           /\ IF r.raised # NoError
              THEN /\ pc' = "raised"
                   /\ ret' = Call("record_event_listener", r.raised)
                   /\ UNCHANGED <<todo, passed, nwork>>
              ELSE /\ todo' = Tail(todo)
                   /\ passed' = Append(passed, Head(todo))
                   /\ nwork' = nwork + 1
                   /\ UNCHANGED <<pc, ret>>
    /\ UNCHANGED <<store, registry, inst, user, scores_by_skill, pending, skill, store0,
                   loaded, prev, keyvars, sidevars>>

\* updater.save(), once the scores of the skill are passed; the loop goes
\* on to the next skill, or is over and the listener returns.
UpdaterSave ==
    /\ pc = "update"
    /\ todo = <<>>
    /\ LET r == Updater_save(updater, store)
       IN  /\ trace' = trace \o r.io
           /\ updater' = r.measures
           /\ store' = r.st
           /\ IF r.raised # NoError
              THEN pc' = "raised" /\ ret' = Call("record_event_listener", r.raised)
              ELSE pc' = (IF pending = {} THEN "returned" ELSE "loop") /\ UNCHANGED ret
    /\ UNCHANGED <<registry, inst, nwork, user, scores_by_skill, pending, skill, todo,
                   store0, loaded, passed, prev, keyvars, sidevars>>

\* The caller of the listener has its outcome; the listener's locals are gone.
Finish ==
    /\ pc \in {"returned", "raised"}
    /\ pc' = "idle"
    /\ user' = <<>>
    /\ scores_by_skill' = EmptyDict
    /\ pending' = {}
    /\ skill' = <<>>
    /\ todo' = <<>>
    /\ updater' = <<>>
    /\ trace' = <<>>
    /\ store0' = EmptyDict
    /\ ret' = NoCall
    /\ loaded' = <<>>
    /\ passed' = <<>>
    /\ ev' = None
    /\ parsed' = None
    /\ UNCHANGED <<store, registry, inst, nwork, prev, keyvars, racevars, stepvars>>

\* The listener at work on one event.
Listener ==
    \/ /\ pc = "idle" /\ inst = None /\ nwork < MaxWork
       /\ \E d \in Deliveries, user_id \in UserIds : Begin(d, user_id)
    \/ \E skill_id \in pending : GetUpdater(skill_id)
    \/ UpdaterUpdate
    \/ UpdaterSave
    \/ Finish

\* A caller at work on a measure object of its own.
Caller(user_ids, skill_ids, scores) ==
    \/ /\ pc = "idle" /\ nwork < MaxWork
       /\ \E cls \in Classes, user_id \in user_ids : New(cls, user_id)
    \/ /\ inst # None
       /\ \E skill_id \in skill_ids : Load(skill_id)
    \/ /\ inst # None
       /\ \E normalized_score \in scores : Update(normalized_score)
    \/ Save
    \/ Drop

\* The module at work: classes are registered, events are delivered to the
\* listener, and between events callers use measure objects of their own.
Next ==
    \/ \E cls \in Classes : Register(cls)
    \/ Listener
    \/ Caller(CallerUserIds, SkillIds, EventScores)

Spec == Init /\ [][Next]_vars

\* inst.get_skill_score()
GetSkillScore ==
    /\ inst # None
    /\ inst' = Some(get_skill_score_effect(inst[1]))
    /\ ret' = Call("get_skill_score", get_skill_score(inst[1]).raised)
    /\ UNCHANGED <<store, registry, nwork, listenervars, historyvars, keyvars, sidevars>>

\* inst.get_events_list()
GetEventsList ==
    /\ inst # None
    /\ inst' = Some(measure_get_events_list_effect(inst[1]))
    /\ ret' = Call("get_events_list", get_events_list(inst[1]).raised)
    /\ UNCHANGED <<store, registry, nwork, listenervars, historyvars, keyvars, sidevars>>

\* The measure objects on their own, with nothing registered: callers with
\* every user id, skill id and score, who also read the score and the
\* events of their object.
NextMeasure ==
    \/ Caller(UserIds \ {<<"v">>}, SkillIds, Scores)
    \/ GetSkillScore
    \/ GetEventsList

SpecMeasure == Init /\ [][NextMeasure]_vars

-----------------------------------------------------------------------------
(* Two events delivered at once: two runs of record_event_listener, each   *)
(* with locals of its own, on the one store. A load and a save are one     *)
(* round trip to the store each; nothing else is shared or locked.         *)

Runs == {1, 2}

\* The user both events are of.
RaceUser == <<"u">>

\* The locals of a run that has not begun. seen is the events the store
\* held for the run's skill when the run loaded, kept for the properties.
IdleRun ==
    [pc |-> "idle", scores_by_skill |-> EmptyDict, pending |-> {}, skill |-> <<>>,
     todo |-> <<>>, updater |-> <<>>, passed |-> <<>>, seen |-> <<>>]

\* The events of the runs: those that decode and carry a score for a skill,
\* and take one run no more work than MaxWork.
RaceDeliveries ==
    {d \in Deliveries :
        /\ d.raised = NoError /\ d.by_skill # EmptyDict
        /\ Cardinality(DOMAIN d.by_skill) + SumLen(d.by_skill, DOMAIN d.by_skill)
               <= MaxWork}

\* The state after notify_module_enabled: SuccessRateCompetencyMeasure is
\* registered, the store is empty, no run has begun. delivered counts, by
\* key, the scores of the Updaters saved; overwritten holds the keys saved
\* over a document that was not the one loaded; last is, by key, the run
\* that saved last.
InitRace ==
    /\ store = EmptyDict
    /\ registry = <<SuccessRateCls>>
    /\ inst = None
    /\ ret = NoCall
    /\ nwork = 0
    /\ ListenerIdle
    /\ loaded = <<>>
    /\ passed = <<>>
    /\ prev = None
    /\ KeyIdle
    /\ ev = None /\ parsed = None /\ ucall = None
    /\ race = [run |-> [p \in Runs |-> IdleRun], delivered |-> EmptyDict,
               overwritten |-> {}, last |-> EmptyDict]

\* The key of the document of the one registered class for a skill.
RaceKey(skill_id) == FormatKey(RaceUser, skill_id, ClassName(registry[1]))

RaceUnchanged ==
    UNCHANGED <<registry, inst, ret, nwork, listenervars, historyvars, keyvars,
                eventvars, stepvars>>

\* Run p is given an event: record_event_listener up to its loop. Run 1 is
\* the one that begins first.
RaceBegin(p, d) ==
    /\ race.run[p].pc = "idle"
    /\ p # 1 => race.run[1].pc # "idle"
    /\ race' = [race EXCEPT !.run[p] =
                    [@ EXCEPT !.pc = "loop", !.scores_by_skill = d.by_skill,
                              !.pending = DOMAIN d.by_skill]]
    /\ UNCHANGED store
    /\ RaceUnchanged

\* Run p: updater = Registry.get_updater(user.user_id(), skill_id)
RaceGetUpdater(p, skill_id) ==
    /\ race.run[p].pc = "loop"
    /\ skill_id \in race.run[p].pending
    /\ LET r == get_updater(registry, RaceUser, skill_id, store)
       IN  race' = [race EXCEPT !.run[p] =
                       IF r.raised # NoError
                       THEN [@ EXCEPT !.pc = "raised"]
                       ELSE [@ EXCEPT !.pc = "update",
                                      !.pending = @ \ {skill_id},
                                      !.skill = skill_id,
                                      !.todo = race.run[p].scores_by_skill[skill_id],
                                      !.updater = r.measures,
                                      !.passed = <<>>,
                                      !.seen = EventsAt(store, RaceKey(skill_id))]]
    /\ UNCHANGED store
    /\ RaceUnchanged

\* Run p: updater.update(score), for the next score of the skill.
RaceUpdate(p) ==
    /\ race.run[p].pc = "update"
    /\ race.run[p].todo # <<>>
    /\ LET r == Updater_update(race.run[p].updater, Head(race.run[p].todo), store)
       IN  race' = [race EXCEPT !.run[p] =
                       IF r.raised # NoError
                       THEN [@ EXCEPT !.pc = "raised", !.updater = r.measures]
                       ELSE [@ EXCEPT !.updater = r.measures,
                                      !.todo = Tail(@),
                                      !.passed = Append(@, Head(race.run[p].todo))]]
    /\ UNCHANGED store
    /\ RaceUnchanged

\* Run p: updater.save(); the loop goes on, or the listener returns.
RaceSave(p) ==
    /\ race.run[p].pc = "update"
    /\ race.run[p].todo = <<>>
    /\ LET r == Updater_save(race.run[p].updater, store)
           key == RaceKey(race.run[p].skill)
       IN  /\ store' = r.st
           /\ race' = [race EXCEPT
                  !.run[p] =
                      IF r.raised # NoError
                      THEN [@ EXCEPT !.pc = "raised", !.updater = r.measures]
                      ELSE [@ EXCEPT !.pc = (IF race.run[p].pending = {} THEN "returned"
                                            ELSE "loop"),
                                     !.updater = r.measures],
                  !.delivered =
                      IF r.raised # NoError THEN @
                      ELSE DictSet(@, key, DictGet(@, key, 0) + Len(race.run[p].passed)),
                  !.overwritten =
                      IF r.raised = NoError
                         /\ EventsAt(store, key) # race.run[p].seen
                      THEN @ \cup {key} ELSE @,
                  !.last = IF r.raised # NoError THEN @ ELSE DictSet(@, key, p)]
    /\ RaceUnchanged

NextRace ==
    \/ \E p \in Runs, d \in RaceDeliveries : RaceBegin(p, d)
    \/ \E p \in Runs : \E skill_id \in race.run[p].pending : RaceGetUpdater(p, skill_id)
    \/ \E p \in Runs : RaceUpdate(p)
    \/ \E p \in Runs : RaceSave(p)

SpecRace == InitRace /\ [][NextRace]_vars

-----------------------------------------------------------------------------
(* SuccessRateCompetencyMeasure.update, statement by statement, on the     *)
(* object a caller holds.                                                  *)

\* inst.update(normalized_score) is called: nothing has run yet.
UpdateCall(normalized_score) ==
    /\ ucall = None
    /\ inst # None /\ inst[1].cls = SuccessRateCls
    /\ inst[1].dto # None => nwork < MaxWork
    /\ ucall' = Some([normalized_score |-> normalized_score, at |-> 1,
                      raised |-> NoError, self0 |-> inst[1]])
    /\ ret' = NoCall
    /\ UNCHANGED <<store, registry, inst, nwork, listenervars, historyvars, keyvars,
                   eventvars, racevars>>

\* The next statement of the method runs.
UpdateStep ==
    /\ ucall # None
    /\ ucall[1].raised = NoError
    /\ ucall[1].at <= Len(SuccessRate_update_body)
    /\ LET r == SuccessRate_update_statement(SuccessRate_update_body[ucall[1].at],
                                             inst[1], ucall[1].normalized_score, store)
       IN  /\ inst' = Some(r.self)
           /\ ucall' = Some([ucall[1] EXCEPT !.at = @ + 1, !.raised = r.raised])
    /\ UNCHANGED <<store, registry, ret, nwork, listenervars, historyvars, keyvars,
                   eventvars, racevars>>

\* The method returns after its last statement, or raises.
UpdateReturn ==
    /\ ucall # None
    /\ ucall[1].raised # NoError \/ ucall[1].at > Len(SuccessRate_update_body)
    /\ ucall' = None
    /\ ret' = Call("update", ucall[1].raised)
    /\ IF ucall[1].raised = NoError
       THEN passed' = Append(passed, ucall[1].normalized_score) /\ nwork' = nwork + 1
       ELSE UNCHANGED <<passed, nwork>>
    /\ UNCHANGED <<store, registry, inst, listenervars, trace, store0, loaded, prev,
                   keyvars, eventvars, racevars>>

\* A caller at work on a SuccessRateCompetencyMeasure; between the call of
\* update and its return nothing else runs.
NextUpdate ==
    \/ /\ ucall = None /\ nwork < MaxWork
       /\ \E user_id \in UserIds \ {<<"v">>} : New(SuccessRateCls, user_id)
    \/ /\ ucall = None /\ inst # None
       /\ \E skill_id \in SkillIds : Load(skill_id)
    \/ \E normalized_score \in Scores : UpdateCall(normalized_score)
    \/ UpdateStep
    \/ UpdateReturn
    \/ ucall = None /\ Save
    \/ ucall = None /\ Drop

SpecUpdate == Init /\ [][NextUpdate]_vars

-----------------------------------------------------------------------------
(* The listener with the event kept: what it was given stays in ev, what   *)
(* its first part made of it in parsed, until the listener is through.     *)

\* The user of the events whose decoding is followed.
EventUserIds == {<<"u">>}

\* The events delivered, each with every order its dict may iterate in,
\* with the question scores the listener extracts and what it groups them to.
Extracted ==
    UNION {{[source |-> e.source, data |-> e.data, order |-> order,
             result |-> question_scores_of(e.source, e.data, order),
             d |-> Ingest(e, order)] : order \in InstanceOrders(e)} : e \in Events}

\* record_event_listener(source, user, data), up to its loop over the skills.
Deliver(x, user_id) ==
    /\ BeginWith(x.d, user_id)
    /\ ev' = Some([source |-> x.source, data |-> x.data, order |-> x.order])
    /\ parsed' = Some(x.result)

NextEvent ==
    \/ \E cls \in Classes : Register(cls)
    \/ /\ pc = "idle"
       /\ \E x \in Extracted, user_id \in EventUserIds : Deliver(x, user_id)
    \/ \E skill_id \in pending : GetUpdater(skill_id)
    \/ UpdaterUpdate
    \/ UpdaterSave
    \/ Finish

SpecEvent == Init /\ [][NextEvent]_vars

-----------------------------------------------------------------------------
(* The composite key on its own: a key name is built from every triple of  *)
(* strings of up to MaxLen atoms, then taken apart again.                  *)

Atoms == {"a", Sep}

Strings == UNION {[1..n -> Atoms] : n \in 0..MaxLen}

InitKey ==
    /\ SideIdle
    /\ store = EmptyDict
    /\ registry = <<>>
    /\ inst = None
    /\ ret = NoCall
    /\ nwork = 0
    /\ ListenerIdle
    /\ loaded = <<>>
    /\ passed = <<>>
    /\ prev = None
    /\ kin \in Strings \X Strings \X Strings
    /\ kout = None
    /\ kparts = None
    /\ ksafe = None

\* CompetencyMeasureEntity.create_key_name(user_id, skill_id, class_name)
CreateKeyName ==
    /\ kin # <<>> /\ kout = None
    /\ kout' = Some(create_key_name(kin[1], kin[2], kin[3]))
    /\ UNCHANGED <<store, registry, inst, ret, nwork, listenervars, historyvars, sidevars, kin,
                   kparts, ksafe>>

\* user_id, skill_id, class_name = db_key.name().split(':', 2)
Decompose ==
    /\ kout # None /\ kout[1].raised = NoError /\ kparts = None
    /\ kparts' = Some(key_parts(kout[1].value))
    /\ UNCHANGED <<store, registry, inst, ret, nwork, listenervars, historyvars, sidevars, kin,
                   kout, ksafe>>

\* CompetencyMeasureEntity.safe_key(db_key, transform_fn)
SafeKey(transform_fn) ==
    /\ kout # None /\ kout[1].raised = NoError /\ ksafe = None
    /\ ksafe' = Some(safe_key(kout[1].value, transform_fn))
    /\ UNCHANGED <<store, registry, inst, ret, nwork, listenervars, historyvars, sidevars, kin,
                   kout, kparts>>

NextKey ==
    \/ CreateKeyName
    \/ Decompose
    \/ \E transform_fn \in Transforms : SafeKey(transform_fn)

SpecKey == InitKey /\ [][NextKey]_vars

-----------------------------------------------------------------------------
(* The properties of the success-rate measure, over SpecMeasure.           *)

\* The scores of a sequence that count as correct: those of at least 0.5,
\* which is 5 tenths.
NumCorrect(scores) == Cardinality({i \in 1..Len(scores) : 2 * scores[i] >= 10})

\* The caller's object holds the document of the key its last cycle saved,
\* loaded again and not yet updated; that cycle began on an absent document
\* and passed at least one score.
Reloaded ==
    /\ inst # None /\ inst[1].cls = SuccessRateCls /\ inst[1].dto # None
    /\ passed = <<>>
    /\ prev # None /\ prev[1].key = inst[1].dto[1].id
    /\ prev[1].absent /\ prev[1].passed # <<>>

\* C1: a SuccessRateCompetencyMeasure loaded for a (user, skill) with no
\* stored document, updated with the scores s1..sn (n >= 1) and saved, then
\* loaded afresh under the same (user, skill), has get_skill_score() equal to
\* (the number of si with si >= 0.5) / n.
C1_SuccessRateRoundTrip ==
    Reloaded =>
        LET r == get_skill_score(inst[1])
        IN  /\ r.raised = NoError
            /\ SameScore(r.value, <<NumCorrect(prev[1].passed), Len(prev[1].passed)>>)

\* A reload after a cycle of two scores, one at the cutoff and one below it.
C1_Witness ==
    /\ Reloaded
    /\ Len(prev[1].passed) = 2
    /\ \E i, j \in 1..2 : prev[1].passed[i] = 5 /\ prev[1].passed[j] = 2

\* The caller's SuccessRateCompetencyMeasure holds a document that was
\* absent from the store when it was loaded, and has passed it no score.
FreshlyLoaded ==
    /\ inst # None /\ inst[1].cls = SuccessRateCls /\ inst[1].dto # None
    /\ loaded # <<>> /\ loaded[1].absent
    /\ passed = <<>>

\* A SuccessRateCompetencyMeasure loaded from the document of a key.
LoadedFrom(key) ==
    [cls |-> SuccessRateCls, user_id |-> <<>>, dto |-> Some(Dto(key, store[key]))]

\* C2: get_skill_score() of a SuccessRateCompetencyMeasure loaded for a
\* (user, skill) with no stored document and not updated returns 0.0, and in
\* no reachable state does get_skill_score() divide by a count of zero:
\* neither on the caller's object nor on any stored document loaded.
C2_FreshScoreIsZero ==
    /\ FreshlyLoaded => get_skill_score(inst[1]) = Return(<<0, 1>>)
    /\ inst # None => get_skill_score(inst[1]).raised # "ZeroDivisionError"
    /\ \A key \in DOMAIN store :
           get_skill_score(LoadedFrom(key)).raised # "ZeroDivisionError"

\* A fresh load of an absent document, while the store holds the document of
\* another cycle.
C2_Witness ==
    /\ FreshlyLoaded
    /\ ret = Call("load", NoError)
    /\ store # EmptyDict

-----------------------------------------------------------------------------
(* The properties of the Updater and of the listener, over Spec.           *)

\* The event records update appends for a sequence of scores, in order.
Records(scores) ==
    [i \in 1..Len(scores) |-> EventRecord(scores[i], None, None, None, None)]

\* The key of the document of the i-th registered class for the user of the
\* event and a skill.
KeyOf(i, skill_id) == FormatKey(user, skill_id, ClassName(registry[i]))

\* Updater.save() has returned for the skill the listener took last.
UpdaterSaved == pc \in {"loop", "returned"} /\ skill # <<>>

\* C3: every registered measure type observes every score passed to
\* Updater.update, in the same order. While the Updater is in use it bundles
\* one loaded instance per registered class, and the event list of each is
\* its loaded event list extended by exactly the scores passed so far, in
\* call order; once Updater.save() has returned, every score of the skill
\* has been passed and the stored document of each class holds its loaded
\* event list extended by all of them.
C3_UpdaterFanOut ==
    /\ pc = "update" =>
           /\ Len(updater) = Len(registry)
           /\ passed \o todo = scores_by_skill[skill]
           /\ \A i \in 1..Len(updater) :
                  /\ updater[i].cls = registry[i]
                  /\ updater[i].dto # None
                  /\ get_events_list(updater[i])
                         = Return(loaded[i].events \o Records(passed))
    /\ UpdaterSaved =>
           /\ passed = scores_by_skill[skill]
           /\ \A i \in 1..Len(registry) :
                  /\ KeyOf(i, skill) \in DOMAIN store
                  /\ dict_get_events_list(store[KeyOf(i, skill)])
                         = loaded[i].events \o Records(passed)

\* An Updater of two measure types that has been passed two different
\* scores and is about to be saved.
C3_Witness ==
    /\ pc = "update" /\ todo = <<>>
    /\ Len(updater) = 2 /\ updater[1].cls # updater[2].cls
    /\ Len(passed) = 2 /\ passed[1] # passed[2]

\* The calls made on the document of a key while the event is processed.
OpsOn(key) ==
    LET calls == SelectSeq(trace, LAMBDA c : c.key = key)
    IN  [i \in 1..Len(calls) |-> calls[i].op]

\* One load, n updates, one save.
OneCycle(n) == <<"get">> \o [i \in 1..n |-> "update"] \o <<"put">>

IsPrefix(s, t) == Len(s) <= Len(t) /\ SubSeq(t, 1, Len(s)) = s

\* C4: when the listener processes one event that yields N scores for a
\* skill, each registered measure type is loaded once, updated N times and
\* saved once for that skill, in the order load, N updates, save; there is
\* no load or save per score, and no call on any other document.
C4_OneLoadOneSavePerSkill ==
    pc \in {"loop", "update", "returned"} =>
        /\ \A skill_id \in DOMAIN scores_by_skill : \A i \in 1..Len(registry) :
               LET ops == OpsOn(KeyOf(i, skill_id))
                   cycle == OneCycle(Len(scores_by_skill[skill_id]))
               IN  /\ IsPrefix(ops, cycle)
                   /\ pc = "returned" => ops = cycle
        /\ pc = "returned" =>
               Len(trace) = Len(registry) * (2 * Cardinality(DOMAIN scores_by_skill)
                                + SumLen(scores_by_skill, DOMAIN scores_by_skill))

\* The listener has returned from an event of two scores for one skill,
\* with two measure types registered.
C4_Witness ==
    /\ pc = "returned"
    /\ Len(registry) = 2
    /\ \E skill_id \in DOMAIN scores_by_skill : Len(scores_by_skill[skill_id]) = 2


\* C5: the events list of a document is append-only across cycles run one
\* after another. In every step no document is removed and every stored
\* events list has the list stored before as a prefix; a document written
\* by the step holds the list stored before extended by the records of the
\* scores passed in the cycle, in update-call order, equal scores included.
C5_EventsAppendOnly ==
    [][\A key \in DOMAIN store \cup DOMAIN store' :
           /\ key \in DOMAIN store'
           /\ IsPrefix(EventsAt(store, key), EventsAt(store', key))
           /\ (key \notin DOMAIN store \/ store'[key] # store[key]) =>
                  EventsAt(store', key) = EventsAt(store, key) \o Records(passed)]_vars

\* A cycle has saved a score on a document that already held an event of
\* the same score: the list holds the record twice.
C5_Witness ==
    /\ prev # None /\ ~prev[1].absent /\ Len(prev[1].passed) = 1
    /\ LET events == EventsAt(store, prev[1].key)
       IN  Len(events) = 2 /\ events[1] = events[2]

\* The step is a call of the given method on the caller's object.
CallerStep(op) == inst # None /\ inst' # None /\ ret'.op = op

\* C6: the lifecycle is guarded by assertions. update() or save() on an
\* object that holds no document (never loaded, or consumed by a save)
\* raises AssertionError and changes neither the store nor the object; a
\* save() that succeeds leaves the object without a document, and only
\* load() gives it one again; when Updater.save() has returned, every
\* bundled instance is without a document, so that a further update() or
\* save() on it fails in the same way and writes nothing.
C6_LifecycleGuarded ==
    [][/\ (CallerStep("save") \/ CallerStep("update")) /\ inst[1].dto = None =>
              ret'.raised = "AssertionError" /\ store' = store /\ inst' = inst
       /\ CallerStep("save") /\ inst[1].dto # None =>
              ret'.raised = NoError /\ inst'[1].dto = None
       /\ inst # None /\ inst' # None /\ inst[1].dto = None /\ inst'[1].dto # None =>
              ret'.op = "load"
       /\ pc' \in {"loop", "returned"} =>
              \A i \in 1..Len(updater') :
                  /\ updater'[i].dto = None
                  /\ \A normalized_score \in EventScores :
                         update(updater'[i], normalized_score, store')
                             = Failed("AssertionError", updater'[i], store', <<>>)
                  /\ save(updater'[i], store')
                         = Failed("AssertionError", updater'[i], store', <<>>)
       /\ pc = "update" /\ pc' \in {"loop", "returned"} =>
              Len(updater') = Len(registry)]_vars

\* A second save() on an object that a save consumed has failed.
C6_Witness ==
    /\ inst # None /\ inst[1].dto = None
    /\ prev # None
    /\ ret = Call("save", "AssertionError")

-----------------------------------------------------------------------------
(* The properties of the composite key: the round trip over SpecKey, the   *)
(* refusal of a separator over Spec.                                       *)

\* No component of the triple holds the separator.
ColonFree(t) == ~Contains(Format3(t[1], t[2], t[3]), Sep)

ColonFreeTriples == {t \in Strings \X Strings \X Strings : ColonFree(t)}

\* C7: for every (user_id, skill_id, measure type) whose components hold no
\* ':', create_key_name yields a key, splitting that key on the separator
\* returns exactly the triple, and no other such triple yields the same key.
C7_KeyRoundTrip ==
    ColonFree(kin) =>
        /\ kout # None => kout[1].raised = NoError
        /\ kparts # None => kparts[1] = Return(<<kin[1], kin[2], kin[3]>>)
        /\ kout # None =>
               \A t \in ColonFreeTriples :
                   create_key_name(t[1], t[2], t[3]) = kout[1] => t = kin

\* The key of a triple with an empty component and components of different
\* lengths has been built and taken apart.
C7_Witness ==
    /\ kparts # None
    /\ kin = <<<<"a", "a">>, <<>>, <<"a">>>>

\* A key name of three parts, none of which holds the separator.
WellFormedKey(key) ==
    LET parts == key_parts(key)
    IN  /\ parts.raised = NoError
        /\ \A i \in 1..3 : ~Contains(parts.value[i], Sep)

\* create_key_name fails on every triple with a separator in a component,
\* and yields no key.
SeparatorRefused ==
    \A t \in Strings \X Strings \X Strings :
        ~ColonFree(t) => create_key_name(t[1], t[2], t[3]) = Raise("AssertionError")

\* C8: key construction fails with an assertion whenever ':' appears in the
\* user_id, the skill_id or the measure type name, and yields no key; a
\* load given such an id raises and leaves the object without a document,
\* the listener given such a user id raises before any call on a document,
\* and no document is ever read, held or stored under a malformed key.
C8_SeparatorRefused ==
    /\ SeparatorRefused
    /\ \A key \in DOMAIN store : WellFormedKey(key)
    /\ \A i \in 1..Len(trace) : WellFormedKey(trace[i].key)
    /\ inst # None /\ inst[1].dto # None => WellFormedKey(inst[1].dto[1].id)
    /\ \A i \in 1..Len(updater) :
           updater[i].dto # None => WellFormedKey(updater[i].dto[1].id)
    /\ ret = Call("load", "AssertionError") => inst[1].dto = None
    /\ pc # "idle" /\ Contains(user, Sep) =>
           /\ trace = <<>> /\ store = store0
           /\ registry # <<>> =>
                  /\ pc # "update"
                  /\ pc = "returned" => scores_by_skill = EmptyDict
                  /\ pc = "raised" /\ scores_by_skill # EmptyDict =>
                         ret.raised = "AssertionError"

\* The listener has raised the assertion for a user id with a separator,
\* with documents in the store.
C8_Witness ==
    /\ pc = "raised" /\ ret = Call("record_event_listener", "AssertionError")
    /\ Contains(user, Sep)
    /\ registry # <<>>
    /\ store # EmptyDict

-----------------------------------------------------------------------------
(* The separation of the documents, over Spec.                             *)

\* The keys the event may write: those of its user, a skill that received a
\* score in it and a registered class.
Touched ==
    {KeyOf(i, skill_id) : i \in 1..Len(registry), skill_id \in DOMAIN scores_by_skill}

\* get_skill_score() of a SuccessRateCompetencyMeasure loaded afresh.
ScoreOf(user_id, skill_id) ==
    get_skill_score(load(Measure(SuccessRateCls, user_id), skill_id, store).self)

\* The listener has returned from an event with a score of 0.2 for the
\* skill s and one of 0.9 for the skill t, of a user with no events stored
\* for either, and SuccessRateCompetencyMeasure is registered.
TwoSkillsScored ==
    /\ pc = "returned"
    /\ \E i \in 1..Len(registry) : registry[i] = SuccessRateCls
    /\ DOMAIN scores_by_skill = {<<"s">>, <<"t">>}
    /\ scores_by_skill[<<"s">>] = <<2>> /\ scores_by_skill[<<"t">>] = <<9>>
    /\ \A key \in Touched : EventsAt(store0, key) = <<>>

\* C9: processing an event for a user changes only stored documents whose
\* key is (user, s, T) for a skill s that received a score in the event and
\* a registered type T: every other document is as it was when the event
\* came in. An event with q1 (skill s, score 0.2) and q2 (skill t, score
\* 0.9) leaves s with the score 0.0 and t with the score 1.0.
C9_NoCrossContamination ==
    /\ pc # "idle" =>
           \A key \in (DOMAIN store \cup DOMAIN store0) \ Touched :
               /\ key \in DOMAIN store /\ key \in DOMAIN store0
               /\ store[key] = store0[key]
    /\ TwoSkillsScored =>
           /\ ScoreOf(user, <<"s">>).raised = NoError
           /\ SameScore(ScoreOf(user, <<"s">>).value, <<0, 1>>)
           /\ ScoreOf(user, <<"t">>).raised = NoError
           /\ SameScore(ScoreOf(user, <<"t">>).value, <<1, 1>>)

\* The listener has returned from an event that wrote a document, while
\* the store holds a document with an event that the event may not write.
C9_Witness ==
    /\ pc = "returned" /\ store # store0
    /\ \E key \in DOMAIN store0 \ Touched : EventsAt(store0, key) # <<>>

\* The listener's Updater of two measure types has been passed one score
\* and saved.
OneScoreSaved == UpdaterSaved /\ Len(registry) = 2 /\ Len(passed) = 1

\* C10: with two distinct measure types registered, one Updater.update
\* followed by Updater.save() leaves two stored documents under two keys
\* that differ only in the measure type, each holding its loaded events and
\* the one new event; and a later save of a measure object writes the
\* document of its own key only, so a change to one never alters the other.
C10_TwoTypesTwoDocuments ==
    [][/\ OneScoreSaved' =>
              LET k1 == key_parts(KeyOf(1, skill)')
                  k2 == key_parts(KeyOf(2, skill)')
              IN  /\ KeyOf(1, skill)' # KeyOf(2, skill)'
                  /\ k1.raised = NoError /\ k2.raised = NoError
                  /\ k1.value[1] = user' /\ k2.value[1] = user'
                  /\ k1.value[2] = skill' /\ k2.value[2] = skill'
                  /\ k1.value[3] # k2.value[3]
                  /\ \A i \in 1..2 :
                         /\ KeyOf(i, skill)' \in DOMAIN store'
                         /\ EventsAt(store', KeyOf(i, skill)')
                                = loaded'[i].events \o Records(passed')
                         /\ loaded'[i].absent =>
                                EventsAt(store', KeyOf(i, skill)') = Records(passed')
       /\ inst # None =>
              \A key \in DOMAIN store \cup DOMAIN store' :
                  (key \notin DOMAIN store \/ key \notin DOMAIN store'
                       \/ store'[key] # store[key])
                      => inst[1].dto # None /\ key = inst[1].dto[1].id]_vars

\* Both documents of a (user, skill) were written by the listener, and a
\* caller has since saved one more event on one of them only.
C10_Witness ==
    /\ Len(registry) = 2 /\ prev # None /\ Len(prev[1].passed) = 1
    /\ \E user_id \in CallerUserIds, skill_id \in SkillIds :
           LET kb == FormatKey(user_id, skill_id, ClassName(BaseCls))
               ks == FormatKey(user_id, skill_id, ClassName(SuccessRateCls))
           IN  /\ kb \in DOMAIN store /\ ks \in DOMAIN store
               /\ prev[1].key \in {kb, ks}
               /\ {Len(EventsAt(store, kb)), Len(EventsAt(store, ks))} = {1, 2}

-----------------------------------------------------------------------------
(* The listener with nothing registered, over Spec.                        *)

\* C11: with no measure type registered, Updater.update and Updater.save
\* are no-ops that raise no error: the Updater bundles nothing, update and
\* save of it return with the store as it was and no call on a document,
\* the listener raises only what its decoding raised, and processing an
\* event leaves the store unchanged.
C11_EmptyRegistryNoOp ==
    registry = <<>> /\ pc # "idle" =>
        /\ store = store0 /\ trace = <<>>
        /\ updater = <<>>
        /\ pc = "raised" => scores_by_skill = EmptyDict
        /\ pc = "update" =>
               /\ \A normalized_score \in EventScores :
                      Updater_update(updater, normalized_score, store)
                          = Built(NoError, <<>>, store, <<>>)
               /\ Updater_save(updater, store) = Built(NoError, <<>>, store, <<>>)

\* With nothing registered and a document in the store, the listener has
\* returned from an event that carried scores for a skill.
C11_Witness ==
    /\ registry = <<>> /\ pc = "returned"
    /\ scores_by_skill # EmptyDict /\ passed # <<>>
    /\ store # EmptyDict

-----------------------------------------------------------------------------
(* The properties of the listener's handling of an event, over SpecEvent.  *)

\* The listener is at work on an event, or through with it.
AtWork == ev # None /\ parsed # None /\ pc # "idle"

\* The listener made no call on a document and the store is as it was when
\* the event came in.
NoEffect ==
    /\ trace = <<>> /\ updater = <<>>
    /\ store = store0

\* C12: an event whose source is not one of the three the listener handles
\* is ignored: the listener returns without error, transforms.loads is not
\* called, no measure is loaded or saved and the store is unchanged.
C12_UnknownSourceIgnored ==
    AtWork /\ ev[1].source \notin Sources =>
        /\ pc = "returned"
        /\ ret = Call("record_event_listener", NoError)
        /\ parsed[1].loads = 0
        /\ scores_by_skill = EmptyDict
        /\ NoEffect

\* An event of an unknown source whose payload would carry a score has
\* been processed, with a class registered and a document in the store.
C12_Witness ==
    /\ AtWork /\ ev[1].source = "enter-page" /\ ev[1].data.wellformed
    /\ pc = "returned"
    /\ registry # <<>> /\ store # EmptyDict

\* The payload of the event is no JSON text, or decodes to a value that
\* lacks what the listener reads from it.
BadPayload ==
    \/ ~ev[1].data.wellformed
    \/ Event(ev[1].source, ev[1].data) \in Misshapen

\* C13: for a source the listener handles and a payload that does not
\* decode or is malformed, the failure propagates to the caller of the
\* listener after the one call of transforms.loads, and the event has no
\* effect: no document is read, created or modified.
C13_BadPayloadPropagates ==
    AtWork /\ ev[1].source \in Sources /\ BadPayload =>
        /\ pc = "raised"
        /\ ret.op = "record_event_listener"
        /\ ret.raised \in {"ValueError", "KeyError", "TypeError"}
        /\ ~ev[1].data.wellformed => ret.raised = "ValueError"
        /\ parsed[1].loads = 1
        /\ NoEffect
        /\ \A key \in DOMAIN store : key \in DOMAIN store0

\* The listener has raised on a payload that decodes but lacks a key, with
\* a class registered and a document in the store.
C13_Witness ==
    /\ AtWork /\ ev[1].source \in Sources /\ BadPayload
    /\ ev[1].data.wellformed
    /\ pc = "raised" /\ ret.raised = "KeyError"
    /\ registry # <<>> /\ store # EmptyDict

\* The listener returned without error, with no question score and no
\* effect on any document.
NothingObserved ==
    /\ pc = "returned" /\ ret = Call("record_event_listener", NoError)
    /\ parsed[1].raised = NoError /\ parsed[1].value = <<>>
    /\ scores_by_skill = EmptyDict
    /\ NoEffect

\* The decoded payload is a bare list.
TopLevelList == ev[1].data.wellformed /\ IsA(ev[1].data.json, "list")

\* The decoded payload is a dict whose 'values' entry is a bare list.
ValuesList ==
    /\ ev[1].data.wellformed /\ IsA(ev[1].data.json, "dict")
    /\ "values" \in DOMAIN ev[1].data.json.dict
    /\ IsA(ev[1].data.json.dict["values"], "list")

\* C14 as stated: an attempt-lesson or submit-assessment payload that
\* decodes to a bare list yields no question score; the listener completes
\* without error and the store is unchanged.
C14_TopLevelListIgnored ==
    /\ AtWork
    /\ ev[1].source \in {"attempt-lesson", "submit-assessment"}
    /\ TopLevelList
    => NothingObserved

\* C14, amended: an attempt-lesson payload that decodes to a bare list, or
\* a submit-assessment payload whose entry 'values' is a bare list, yields
\* no question score, the listener completes without error and the store is
\* unchanged; a submit-assessment payload that itself decodes to a bare
\* list makes the listener raise TypeError, the store unchanged.
C14_LegacyListIgnored ==
    /\ AtWork /\ ev[1].source = "attempt-lesson" /\ TopLevelList
           => NothingObserved
    /\ AtWork /\ ev[1].source = "submit-assessment" /\ ValuesList
           => NothingObserved
    /\ AtWork /\ ev[1].source = "submit-assessment" /\ TopLevelList
           => /\ pc = "raised"
              /\ ret = Call("record_event_listener", "TypeError")
              /\ NoEffect

\* A submission whose 'values' entry is a list with an answer in it was
\* ignored, with a class registered and a document in the store.
C14_Witness ==
    /\ AtWork /\ ev[1].source = "submit-assessment" /\ ValuesList
    /\ ev[1].data.json.dict["values"] # Legacy
    /\ pc = "returned"
    /\ registry # <<>> /\ store # EmptyDict

\* The decoded payload of the event in hand, and its entries.
Payload == ev[1].data.json.dict

Has(key) == key \in DOMAIN Payload

\* The event in hand is a tag-assessment whose payload decodes to a dict
\* with a 'type'.
SingleItemEvent ==
    /\ AtWork /\ ev[1].source = "tag-assessment"
    /\ ev[1].data.wellformed /\ IsA(ev[1].data.json, "dict")
    /\ Has("type")

\* ... a question group with as many scores as question ids.
GroupEvent ==
    /\ SingleItemEvent /\ Payload["type"] = JStr("QuestionGroup")
    /\ Has("quids") /\ Has("individualScores")
    /\ IsA(Payload["quids"], "list") /\ IsA(Payload["individualScores"], "list")
    /\ Len(Payload["quids"].list) = Len(Payload["individualScores"].list)

\* ... a single question with its score.
QuestionEvent ==
    /\ SingleItemEvent /\ Payload["type"] # JStr("QuestionGroup")
    /\ Has("quid") /\ Has("score")

\* C15: a tag-assessment payload that is a question group of k question
\* ids and k scores yields exactly k question scores, the i-th being the
\* i-th id with the i-th score; a payload that is no group yields exactly
\* the one pair (quid, score).
C15_SingleItemPairs ==
    /\ GroupEvent =>
           LET quids == Payload["quids"].list
               scores == Payload["individualScores"].list
           IN  /\ parsed[1].raised = NoError
               /\ Len(parsed[1].value) = Len(quids)
               /\ \A i \in 1..Len(quids) :
                      /\ parsed[1].value[i].quid = quids[i].str
                      /\ parsed[1].value[i].score = scores[i].num
    /\ QuestionEvent =>
           /\ parsed[1].raised = NoError
           /\ parsed[1].value =
                  <<[quid |-> Payload["quid"].str, score |-> Payload["score"].num]>>

\* A group of two different questions with two different scores has been
\* decoded.
C15_Witness ==
    /\ GroupEvent
    /\ Len(Payload["quids"].list) = 2
    /\ Payload["quids"].list[1] # Payload["quids"].list[2]
    /\ Payload["individualScores"].list[1] # Payload["individualScores"].list[2]
    /\ Len(parsed[1].value) = 2

\* The skills the questions of the model are tagged with.
TagSkills == {QuestionSkills(q)[j] : j \in 1..2, q \in {x \in Quids : Len(QuestionSkills(x)) >= 2}}
                 \cup {QuestionSkills(q)[1] : q \in {x \in Quids : Len(QuestionSkills(x)) >= 1}}

\* The scores of the question scores decoded from the event in hand whose
\* question is tagged with skill_id, in the order they were extracted.
TaggedScores(skill_id) ==
    LET Tagged(question_score) ==
            \E j \in 1..Len(QuestionSkills(question_score.quid)) :
                QuestionSkills(question_score.quid)[j] = skill_id
        tagged == SelectSeq(parsed[1].value, Tagged)
    IN  [i \in 1..Len(tagged) |-> tagged[i].score]

\* C16: the listener groups the scores by skill and keeps their order: the
\* scores collected for a skill, and those passed to the skill's Updater,
\* are exactly the scores of the extracted question scores whose question is
\* tagged with the skill, in the order of extraction; a question tagged with
\* several skills counts for each, one without tags for none.
C16_GroupedBySkillInOrder ==
    AtWork /\ parsed[1].raised = NoError /\ ~parsed[1].ignored =>
        /\ DOMAIN scores_by_skill \subseteq TagSkills
        /\ \A skill_id \in TagSkills :
               /\ skill_id \in DOMAIN scores_by_skill <=> TaggedScores(skill_id) # <<>>
               /\ skill_id \in DOMAIN scores_by_skill =>
                      scores_by_skill[skill_id] = TaggedScores(skill_id)
        /\ pc = "update" => passed \o todo = TaggedScores(skill)
        /\ UpdaterSaved => passed = TaggedScores(skill)
        /\ pc = "returned" => pending = {}

\* An event with a question without tags and one with two tags has been
\* handled to the end, the Updaters of both skills saved.
C16_Witness ==
    /\ AtWork /\ pc = "returned" /\ registry # <<>>
    /\ \E i, j \in 1..Len(parsed[1].value) :
           /\ i < j
           /\ QuestionSkills(parsed[1].value[i].quid) = <<>>
           /\ Len(QuestionSkills(parsed[1].value[j].quid)) = 2
    /\ DOMAIN scores_by_skill = TagSkills
    /\ passed # <<>>

\* Two scores of one skill, the lower first, were passed in that order.
C16_OrderKept ==
    /\ AtWork /\ UpdaterSaved /\ Len(passed) = 2 /\ passed[1] < passed[2]
    /\ ev[1].source = "attempt-lesson"

-----------------------------------------------------------------------------
(* The order of the steps of SuccessRateCompetencyMeasure.update, over     *)
(* SpecUpdate.                                                             *)

\* The events and the counters of a measure object; nothing without a
\* document.
EventsOf(self) == IF self.dto = None THEN <<>> ELSE dict_get_events_list(self.dto[1].dict)

CountOf(self) == IF self.dto = None THEN 0 ELSE Or(get_data(self.dto[1].dict, COUNT_KEY), 0)

CorrectOf(self) == IF self.dto = None THEN 0 ELSE Or(get_data(self.dto[1].dict, CORRECT_KEY), 0)

\* The record the call of update under way logs.
RecordOfCall == EventRecord(ucall[1].normalized_score, None, None, None, None)

\* The call under way has appended its record to events.
Logged == EventsOf(inst[1]) = Append(EventsOf(ucall[1].self0), RecordOfCall)

\* The call under way has incremented count, and correct as the score asks.
Counted ==
    /\ CountOf(inst[1]) = CountOf(ucall[1].self0) + 1
    /\ CorrectOf(inst[1]) = CorrectOf(ucall[1].self0)
           + (IF ucall[1].normalized_score >= CORRECT_INCORRECT_CUTOFF THEN 1 ELSE 0)

\* The call under way has changed nothing yet.
Untouched == inst[1] = ucall[1].self0

\* C18 as stated: update first increments count, and correct iff the score
\* reaches the cutoff, and only then chains to the base update, which
\* appends the event record: whenever the record of the call under way is
\* in events, the counters have been incremented.
C18_CountersThenLog ==
    ucall # None /\ ucall[1].self0.dto # None /\ Logged => Counted

\* C18, amended: update first chains to the base update, which asserts that
\* a document is loaded and appends the event record, and only then
\* increments count, and after it correct iff the score reaches the cutoff:
\* whenever a counter has changed the record is in events; correct changes
\* only after count; after the last statement the object is what the method
\* as a whole yields; on an object without a document the call raises
\* AssertionError at its first statement with the object untouched.
C18_LogThenCounters ==
    ucall # None =>
        LET call == ucall[1]
            whole == SuccessRate_update(call.self0, call.normalized_score, store)
        IN  /\ call.at = 1 => Untouched
            /\ call.self0.dto = None /\ call.at > 1 =>
                   /\ call.raised = "AssertionError" /\ call.at = 2
                   /\ Untouched
            /\ call.self0.dto # None =>
                   /\ call.raised = NoError
                   /\ call.at > 1 => Logged
                   /\ CountOf(inst[1]) # CountOf(call.self0) => Logged /\ call.at > 2
                   /\ CorrectOf(inst[1]) # CorrectOf(call.self0) =>
                          CountOf(inst[1]) = CountOf(call.self0) + 1 /\ call.at > 3
                   /\ call.at > Len(SuccessRate_update_body) => Logged /\ Counted
            /\ call.raised # NoError \/ call.at > Len(SuccessRate_update_body) =>
                   /\ whole.raised = call.raised
                   /\ whole.self = inst[1]

\* The record of a score that reaches the cutoff is in the events of a
\* document that had events before, and no counter has moved yet.
C18_Witness ==
    /\ ucall # None /\ ucall[1].at = 2
    /\ ucall[1].normalized_score >= CORRECT_INCORRECT_CUTOFF
    /\ ucall[1].self0.dto # None
    /\ EventsOf(ucall[1].self0) # <<>>
    /\ Logged
    /\ CountOf(inst[1]) = CountOf(ucall[1].self0)
    /\ CorrectOf(inst[1]) = CorrectOf(ucall[1].self0)

-----------------------------------------------------------------------------
(* The reads of a measure object, over SpecMeasure.                        *)

\* The documents at hand: those stored and the one the caller's object holds.
DocsAtHand ==
    {store[key] : key \in DOMAIN store}
        \cup (IF inst # None /\ inst[1].dto # None THEN {inst[1].dto[1].dict} ELSE {})

\* get_skill_score() of a SuccessRateCompetencyMeasure that holds the dict.
ScoreOfDict(dict) ==
    SuccessRate_get_skill_score(
        [cls |-> SuccessRateCls, user_id |-> <<>>, dto |-> Some(Dto(<<>>, dict))])

DataOf(dict) == DictGet(dict, "data", EmptyDict)

\* The step is a call of get_skill_score or get_events_list.
ReadStep == inst # None /\ ret'.op \in {"get_skill_score", "get_events_list"}

\* C19: get_skill_score() of SuccessRateCompetencyMeasure depends on the
\* data of the document alone: any two documents with equal data return the
\* same score whatever their events; and a call of get_skill_score or of
\* get_events_list changes neither the caller's object nor the store.
C19_ScoreReadsDataOnly ==
    [][/\ \A d1, d2 \in DocsAtHand :
              DataOf(d1) = DataOf(d2) => ScoreOfDict(d1) = ScoreOfDict(d2)
       /\ ReadStep =>
              /\ inst' = inst
              /\ store' = store
              /\ ret'.op = "get_skill_score" /\ inst[1].cls = SuccessRateCls
                     /\ inst[1].dto # None =>
                         /\ ret'.raised = NoError
                         /\ get_skill_score(inst'[1]) = ScoreOfDict(inst[1].dto[1].dict)]_vars

\* The score of an object was read while a stored document has the same
\* counters as the object's document and other events.
C19_Witness ==
    /\ ret = Call("get_skill_score", NoError)
    /\ inst # None /\ inst[1].dto # None
    /\ \E key \in DOMAIN store :
           /\ DataOf(store[key]) = DataOf(inst[1].dto[1].dict)
           /\ DataOf(store[key]) # EmptyDict
           /\ dict_get_events_list(store[key]) # dict_get_events_list(inst[1].dto[1].dict)

-----------------------------------------------------------------------------
(* Two runs of the listener at once, over SpecRace.                        *)

\* The count and the correct of the document stored under a key.
CountAt(key) == Or(get_data(store[key], COUNT_KEY), 0)

CorrectAt(key) == Or(get_data(store[key], CORRECT_KEY), 0)

\* The normalized scores of the events of the document stored under a key.
ScoresAt(key) ==
    [i \in 1..Len(EventsAt(store, key)) |-> EventsAt(store, key)[i].normalized_score]

\* Both runs have returned.
BothReturned == \A p \in Runs : race.run[p].pc = "returned"

\* C17: the load and the save of an Updater are separate round trips with
\* no lock between them, so updates can be lost: a stored document never
\* holds more observations than were delivered for its key, it holds fewer
\* exactly when a run saved over a document other than the one it had
\* loaded, and a run that saves leaves what it loaded extended by its own
\* scores, whatever was stored meanwhile. Such a state is reachable: both
\* runs load before either saves (C17_Witness).
C17_LostUpdate ==
    /\ DOMAIN store = DOMAIN race.delivered
    /\ race.overwritten \subseteq DOMAIN store
    /\ \A key \in DOMAIN store :
           /\ Len(EventsAt(store, key)) <= race.delivered[key]
           /\ CountAt(key) <= race.delivered[key]
           /\ Len(EventsAt(store, key)) < race.delivered[key] <=> key \in race.overwritten
           /\ CountAt(key) < race.delivered[key] <=> key \in race.overwritten
    /\ \A key \in DOMAIN store :
           LET saver == race.run[race.last[key]]
           IN  saver.pc \in {"loop", "returned"} /\ RaceKey(saver.skill) = key =>
                   /\ EventsAt(store, key) = saver.seen \o Records(saver.passed)
                   /\ CountAt(key) = Len(saver.seen) + Len(saver.passed)

\* Both runs found no document for the skill s, both have saved and
\* returned, and the stored document holds fewer events and a lower count
\* than the scores the two events delivered for s.
C17_Witness ==
    /\ BothReturned
    /\ \A p \in Runs : race.run[p].skill = <<"s">> /\ race.run[p].seen = <<>>
    /\ RaceKey(<<"s">>) \in DOMAIN store
    /\ race.delivered[RaceKey(<<"s">>)]
           = Len(race.run[1].passed) + Len(race.run[2].passed)
    /\ Len(EventsAt(store, RaceKey(<<"s">>))) < race.delivered[RaceKey(<<"s">>)]
    /\ CountAt(RaceKey(<<"s">>)) < race.delivered[RaceKey(<<"s">>)]
    /\ Len(race.run[1].passed) # Len(race.run[2].passed)

\* C20: in every stored SuccessRateCompetencyMeasure document, however the
\* loads and saves of the two runs interleave, count is the length of
\* events, correct is the number of events with a normalized_score of at
\* least 0.5, and 0 <= correct <= count.
C20_CountersMatchEvents ==
    \A key \in DOMAIN store :
        /\ key_parts(key).value[3] = ClassName(SuccessRateCls)
        /\ CountAt(key) = Len(EventsAt(store, key))
        /\ CorrectAt(key) = NumCorrect(ScoresAt(key))
        /\ 0 <= CorrectAt(key) /\ CorrectAt(key) <= CountAt(key)

\* A document saved over another run's holds a score below the cutoff and
\* one that reaches it.
C20_Witness ==
    /\ BothReturned
    /\ \E key \in race.overwritten :
           /\ CountAt(key) = 2 /\ CorrectAt(key) = 1
           /\ Len(EventsAt(store, key)) = 2

====
